---- MODULE Spec2Model ----
(***************************************************************************)
(* Model of crux-cpp's dependency-ordered summarizer.                      *)
(*                                                                         *)
(*   tarjan_sccs  (src/pysrc/summarize.py:48-92)  iterative Tarjan SCC     *)
(*   main         (src/pysrc/summarize.py:121-198) graph build + driver    *)
(*                                                                         *)
(* Identifiers (USRs) are opaque strings in the program; here they are     *)
(* the numbers 1..NumIds.  A dict is a function on its key set together    *)
(* with the sequence of its keys in iteration (insertion) order.           *)
(***************************************************************************)
EXTENDS Integers, Sequences, FiniteSets, TLC

\* ---- bounds -------------------------------------------------------------
NumIds == 3      \* at most this many keys / def rows
MaxEdges == 3    \* at most this many adjacency entries in a graph given to tarjan_sccs
MaxCalls == 2    \* at most this many rows in table call
MaxOld == 1
MaxRows == 3     \* at most this many rows in table call when only the graph is built
NumTexts == 2    \* this many different texts summarize can return

Ids == 1..NumIds

\* an identifier with no row in def (a library function)
External == NumIds + 1

Texts == 1..NumTexts

Min(a, b) == IF a <= b THEN a ELSE b

Range(s) == {s[i] : i \in 1..Len(s)}

SeqsUpTo(S, n) == UNION {[1..k -> S] : k \in 0..n}

\* the orders in which the keys 1..n of a dict can be iterated
KeyOrders(n) == {p \in [1..n -> 1..n] : \A i, j \in 1..n : p[i] = p[j] => i = j}

\* ---- state --------------------------------------------------------------
VARIABLES
  graph,   \* dict usr -> list of usr: a function on the key set
  keys,    \* iteration order of the dict's keys (the rows of the def query)
  t,       \* the locals of tarjan_sccs and its position
  \* the database and the command line of main
  call,    \* rows of table call, in the order the query returns them
  summary, \* table summary: usr -> summary text, a row per usr at most
  force,   \* args.force
  \* the locals of main
  pc,      \* position of main
  sccs,    \* tarjan_sccs(graph)
  total, done,
  scc_i,   \* for scc in sccs: position in sccs
  usr_j,   \* for usr in scc: position in scc
  callee_summaries,  \* the argument of the summarize call in flight
  \* history of the run, for the properties
  calls,    \* the usrs summarize was called for in this run, in order
  skipped,  \* the usrs this run skipped as already summarized, in order
  returned, \* usr -> text summarize returned for it in this run
  summary0, \* table summary when this run started
  csv,      \* the rows of the CSV file load.py is given for table call
  hist,     \* how often tarjan_sccs has done what, per vertex and per entry
  printed,  \* the (done, total) pairs of the lines this run has printed
  prev      \* how the previous run over this database ended

\* ---- the graph builder (main, lines 147-150) ------------------------------
\* the row loop that records the edge in the wrong direction
RECURSIVE AppendRows_Reversed(_, _, _)
AppendRows_Reversed(g, rows, i) ==
  IF i > Len(rows) THEN g
  ELSE IF rows[i][1] \in DOMAIN g /\ rows[i][2] \in DOMAIN g
         THEN AppendRows_Reversed([g EXCEPT ![rows[i][2]] = Append(@, rows[i][1])],
                                  rows, i + 1)
         ELSE AppendRows_Reversed(g, rows, i + 1)

\* graph = {usr: [] for usr in names}; then one append per row whose two ends
\* are both in names.
RECURSIVE AppendRows(_, _, _)
AppendRows(g, rows, i) ==
  IF i > Len(rows) THEN g
  ELSE LET caller == rows[i][1]
           callee == rows[i][2]
       IN  IF caller \in DOMAIN g /\ callee \in DOMAIN g
             THEN AppendRows([g EXCEPT ![caller] = Append(@, callee)], rows, i + 1)
             ELSE AppendRows(g, rows, i + 1)

BuildGraph(ks, rows) == AppendRows([u \in Range(ks) |-> <<>>], rows, 1)

\* topo.py's loop without the test of the callee
RECURSIVE TopoAppendRows_NoCalleeTest(_, _, _)
TopoAppendRows_NoCalleeTest(g, rows, i) ==
  IF i > Len(rows) THEN g
  ELSE LET caller == rows[i][1]
           callee == rows[i][2]
       IN  IF caller \in DOMAIN g
             THEN TopoAppendRows_NoCalleeTest([g EXCEPT ![caller] = Append(@, callee)],
                                              rows, i + 1)
             ELSE TopoAppendRows_NoCalleeTest(g, rows, i + 1)

\* the same loop in topo.py's main (lines 87-90)
RECURSIVE TopoAppendRows(_, _, _)
TopoAppendRows(g, rows, i) ==
  IF i > Len(rows) THEN g
  ELSE LET caller == rows[i][1]
           callee == rows[i][2]
       IN  IF caller \in DOMAIN g /\ callee \in DOMAIN g
             THEN TopoAppendRows([g EXCEPT ![caller] = Append(@, callee)], rows, i + 1)
             ELSE TopoAppendRows(g, rows, i + 1)

TopoBuildGraph(ks, rows) == TopoAppendRows([u \in Range(ks) |-> <<>>], rows, 1)

\* ---- tarjan_sccs, one definition per branch of the loops -------------------
\* Locals before the for loop (lines 50-55).
TarjanLocals ==
  [pc |-> "for_root", root_i |-> 1, index_counter |-> 0,
   stack |-> <<>>, on_stack |-> {}, index |-> <<>>, lowlink |-> <<>>,
   sccs |-> <<>>, work |-> <<>>, v |-> 0, scc |-> <<>>]

Top(s) == s.work[Len(s.work)]

\* for root in graph: if root in index: continue
SkipRoot(s, g, ks) ==
  [s EXCEPT !.root_i = @ + 1]

\* lines 60-64: index the root, push it, open its frame
StartRoot(s, g, ks) ==
  LET root == ks[s.root_i]
  IN [s EXCEPT !.index = @ @@ (root :> s.index_counter),
               !.lowlink = @ @@ (root :> s.index_counter),
               !.index_counter = @ + 1,
               !.stack = Append(@, root),
               !.on_stack = @ \cup {root},
               !.work = <<[v |-> root, it |-> 0]>>,
               !.pc = "while_work"]

\* the for loop is exhausted: return sccs
Return(s, g, ks) == [s EXCEPT !.pc = "return"]

\* w = next(neighbours): the top frame's iterator advances by one
NextW(s, g) == g[Top(s).v][Top(s).it + 1]

Advance(s) == [s EXCEPT !.work[Len(s.work)].it = @ + 1]

\* Discover without on_stack.add(w)
Discover_NoOnStack(s, g, ks) ==
  LET w == NextW(s, g)
      a == Advance(s)
  IN [a EXCEPT !.index = @ @@ (w :> s.index_counter),
               !.lowlink = @ @@ (w :> s.index_counter),
               !.index_counter = @ + 1,
               !.stack = Append(@, w),
               !.work = Append(@, [v |-> w, it |-> 0])]

\* lines 70-75: w not in index
Discover(s, g, ks) ==
  LET w == NextW(s, g)
      a == Advance(s)
  IN [a EXCEPT !.index = @ @@ (w :> s.index_counter),
               !.lowlink = @ @@ (w :> s.index_counter),
               !.index_counter = @ + 1,
               !.stack = Append(@, w),
               !.on_stack = @ \cup {w},
               !.work = Append(@, [v |-> w, it |-> 0])]

\* OnStackEdge with line 77 left out
OnStackEdge_NoLowlink(s, g, ks) == Advance(s)

\* lines 76-77: w in index and on the stack
OnStackEdge(s, g, ks) ==
  LET w == NextW(s, g)
      v == Top(s).v
      a == Advance(s)
  IN [a EXCEPT !.lowlink[v] = Min(@, s.index[w])]

\* w in index, not on the stack: nothing but the iterator moves
CrossEdge(s, g, ks) == Advance(s)

\* FinishFrame that closes a component only when the last frame is popped
FinishFrame_RootOnly(s, g, ks) ==
  LET v == Top(s).v
      work == SubSeq(s.work, 1, Len(s.work) - 1)
      low == IF work # <<>>
               THEN [s.lowlink EXCEPT ![work[Len(work)].v] = Min(@, s.lowlink[v])]
               ELSE s.lowlink
  IN IF work = <<>>
       THEN [s EXCEPT !.work = work, !.lowlink = low, !.pc = "pop_scc",
                      !.v = v, !.scc = <<>>]
       ELSE [s EXCEPT !.work = work, !.lowlink = low]

\* FinishFrame that does not propagate v's lowlink to the parent frame
FinishFrame_NoPropagate(s, g, ks) ==
  LET v == Top(s).v
      work == SubSeq(s.work, 1, Len(s.work) - 1)
  IN IF s.lowlink[v] = s.index[v]
       THEN [s EXCEPT !.work = work, !.pc = "pop_scc", !.v = v, !.scc = <<>>]
       ELSE [s EXCEPT !.work = work]

\* lines 78-83: StopIteration; pop the frame, propagate lowlink to the parent,
\* and enter the pop loop when v is the root of a component
FinishFrame(s, g, ks) ==
  LET v == Top(s).v
      work == SubSeq(s.work, 1, Len(s.work) - 1)
      low == IF work # <<>>
               THEN [s.lowlink EXCEPT ![work[Len(work)].v] = Min(@, s.lowlink[v])]
               ELSE s.lowlink
  IN IF low[v] = s.index[v]
       THEN [s EXCEPT !.work = work, !.lowlink = low, !.pc = "pop_scc",
                      !.v = v, !.scc = <<>>]
       ELSE [s EXCEPT !.work = work, !.lowlink = low]

\* PopScc whose loop breaks after the first pop
PopScc_BreakEarly(s, g, ks) ==
  LET w == s.stack[Len(s.stack)]
  IN [s EXCEPT !.stack = SubSeq(@, 1, Len(@) - 1),
               !.on_stack = @ \ {w},
               !.sccs = Append(@, <<w>>), !.scc = <<>>, !.v = 0,
               !.pc = "while_work"]

\* PopScc that puts the finished component at the front of sccs
PopScc_Prepend(s, g, ks) ==
  LET w == s.stack[Len(s.stack)]
      scc == Append(s.scc, w)
      p == [s EXCEPT !.stack = SubSeq(@, 1, Len(@) - 1),
                     !.on_stack = @ \ {w},
                     !.scc = scc]
  IN IF w = s.v
       THEN [p EXCEPT !.sccs = <<scc>> \o @, !.scc = <<>>, !.v = 0,
                      !.pc = "while_work"]
       ELSE p

\* lines 84-90: one turn of the while True loop
PopScc(s, g, ks) ==
  LET w == s.stack[Len(s.stack)]
      scc == Append(s.scc, w)
      p == [s EXCEPT !.stack = SubSeq(@, 1, Len(@) - 1),
                     !.on_stack = @ \ {w},
                     !.scc = scc]
  IN IF w = s.v
       THEN [p EXCEPT !.sccs = Append(@, scc), !.scc = <<>>, !.v = 0,
                      !.pc = "while_work"]
       ELSE p

\* while work: is false; back to the for loop
WorkDone(s, g, ks) == [s EXCEPT !.pc = "for_root", !.root_i = @ + 1]

\* ---- guards: which branch the code takes in state s -----------------------
AtRoot(s, ks) == s.pc = "for_root" /\ s.root_i <= Len(ks)
InWork(s) == s.pc = "while_work" /\ s.work # <<>>
HasNext(s, g) == InWork(s) /\ Top(s).it < Len(g[Top(s).v])

CanSkipRoot(s, g, ks) == AtRoot(s, ks) /\ ks[s.root_i] \in DOMAIN s.index
CanStartRoot(s, g, ks) == AtRoot(s, ks) /\ ks[s.root_i] \notin DOMAIN s.index
CanReturn(s, g, ks) == s.pc = "for_root" /\ s.root_i > Len(ks)

\* the test of line 69 made on on_stack: a finished vertex counts as new
CanDiscover_OffStack(s, g, ks) == HasNext(s, g) /\ NextW(s, g) \notin s.on_stack

CanDiscover(s, g, ks) == HasNext(s, g) /\ NextW(s, g) \notin DOMAIN s.index
CanOnStackEdge(s, g, ks) ==
  HasNext(s, g) /\ NextW(s, g) \in DOMAIN s.index /\ NextW(s, g) \in s.on_stack
CanCrossEdge(s, g, ks) ==
  HasNext(s, g) /\ NextW(s, g) \in DOMAIN s.index /\ NextW(s, g) \notin s.on_stack
CanFinishFrame(s, g, ks) == InWork(s) /\ Top(s).it >= Len(g[Top(s).v])
CanPopScc(s, g, ks) == s.pc = "pop_scc"
CanWorkDone(s, g, ks) == s.pc = "while_work" /\ s.work = <<>>

\* one step of tarjan_sccs as a function of its locals
TarjanStep(s, g, ks) ==
  CASE CanSkipRoot(s, g, ks) -> SkipRoot(s, g, ks)
    [] CanStartRoot(s, g, ks) -> StartRoot(s, g, ks)
    [] CanReturn(s, g, ks) -> Return(s, g, ks)
    [] CanDiscover(s, g, ks) -> Discover(s, g, ks)
    [] CanOnStackEdge(s, g, ks) -> OnStackEdge(s, g, ks)
    [] CanCrossEdge(s, g, ks) -> CrossEdge(s, g, ks)
    [] CanFinishFrame(s, g, ks) -> FinishFrame(s, g, ks)
    [] CanPopScc(s, g, ks) -> PopScc(s, g, ks)
    [] CanWorkDone(s, g, ks) -> WorkDone(s, g, ks)

\* the value tarjan_sccs(graph) returns: the steps run to the return statement
RECURSIVE TarjanRun(_, _, _)
TarjanRun(s, g, ks) ==
  IF s.pc = "return" THEN s.sccs
  ELSE CHOOSE r \in {TarjanRun(n, g, ks) : n \in {TarjanStep(s, g, ks)}} : TRUE

tarjan_sccs(g, ks) == TarjanRun(TarjanLocals, g, ks)

\* ---- tarjan_sccs of topo.py, one definition per branch --------------------
\* topo.py lines 26-31: the locals before the for loop
TopoLocals ==
  [pc |-> "for_root", root_i |-> 1, index_counter |-> 0,
   stack |-> <<>>, on_stack |-> {}, index |-> <<>>, lowlink |-> <<>>,
   sccs |-> <<>>, work |-> <<>>, v |-> 0, scc |-> <<>>]

\* topo.py lines 37-42: index the root, push it, open its frame
TopoStartRoot(s, g, ks) ==
  LET root == ks[s.root_i]
  IN [s EXCEPT !.index = @ @@ (root :> s.index_counter),
               !.lowlink = @ @@ (root :> s.index_counter),
               !.index_counter = @ + 1,
               !.stack = Append(@, root),
               !.on_stack = @ \cup {root},
               !.work = <<[v |-> root, it |-> 0]>>,
               !.pc = "while_work"]

\* topo.py lines 45-47: v, neighbours = work[-1]; w = next(neighbours)
TopoNextW(s, g) ==
  LET frame == s.work[Len(s.work)]
  IN g[frame.v][frame.it + 1]

TopoAdvance(s) == [s EXCEPT !.work[Len(s.work)].it = @ + 1]

\* topo.py lines 48-53: w not in index
TopoDiscover(s, g, ks) ==
  LET w == TopoNextW(s, g)
      a == TopoAdvance(s)
  IN [a EXCEPT !.index = @ @@ (w :> s.index_counter),
               !.lowlink = @ @@ (w :> s.index_counter),
               !.index_counter = @ + 1,
               !.stack = Append(@, w),
               !.on_stack = @ \cup {w},
               !.work = Append(@, [v |-> w, it |-> 0])]

\* topo.py lines 54-55: w in index and on the stack
TopoOnStackEdge(s, g, ks) ==
  LET w == TopoNextW(s, g)
      v == s.work[Len(s.work)].v
      a == TopoAdvance(s)
  IN [a EXCEPT !.lowlink[v] = Min(@, s.index[w])]

\* TopoFinishFrame that gives the parent the index of v, not its lowlink
TopoFinishFrame_ParentIndex(s, g, ks) ==
  LET v == s.work[Len(s.work)].v
      work == SubSeq(s.work, 1, Len(s.work) - 1)
      low == IF work # <<>>
               THEN LET parent == work[Len(work)].v
                    IN [s.lowlink EXCEPT ![parent] = Min(@, s.index[v])]
               ELSE s.lowlink
  IN IF low[v] = s.index[v]
       THEN [s EXCEPT !.work = work, !.lowlink = low, !.pc = "pop_scc",
                      !.v = v, !.scc = <<>>]
       ELSE [s EXCEPT !.work = work, !.lowlink = low]

\* topo.py lines 56-62: StopIteration; pop the frame, parent = work[-1][0],
\* lowlink[parent] = min(lowlink[parent], lowlink[v]), then the root test
TopoFinishFrame(s, g, ks) ==
  LET v == s.work[Len(s.work)].v
      work == SubSeq(s.work, 1, Len(s.work) - 1)
      low == IF work # <<>>
               THEN LET parent == work[Len(work)].v
                    IN [s.lowlink EXCEPT ![parent] = Min(@, s.lowlink[v])]
               ELSE s.lowlink
  IN IF low[v] = s.index[v]
       THEN [s EXCEPT !.work = work, !.lowlink = low, !.pc = "pop_scc",
                      !.v = v, !.scc = <<>>]
       ELSE [s EXCEPT !.work = work, !.lowlink = low]

\* TopoPopScc without on_stack.discard(w)
TopoPopScc_KeepOnStack(s, g, ks) ==
  LET w == s.stack[Len(s.stack)]
      scc == Append(s.scc, w)
      p == [s EXCEPT !.stack = SubSeq(@, 1, Len(@) - 1),
                     !.scc = scc]
  IN IF w = s.v
       THEN [p EXCEPT !.sccs = Append(@, scc), !.scc = <<>>, !.v = 0,
                      !.pc = "while_work"]
       ELSE p

\* topo.py lines 62-69: one turn of the while True loop
TopoPopScc(s, g, ks) ==
  LET w == s.stack[Len(s.stack)]
      scc == Append(s.scc, w)
      p == [s EXCEPT !.stack = SubSeq(@, 1, Len(@) - 1),
                     !.on_stack = @ \ {w},
                     !.scc = scc]
  IN IF w = s.v
       THEN [p EXCEPT !.sccs = Append(@, scc), !.scc = <<>>, !.v = 0,
                      !.pc = "while_work"]
       ELSE p

\* one step of topo.py's tarjan_sccs as a function of its locals
TopoStep(s, g, ks) ==
  IF s.pc = "for_root"
    THEN IF s.root_i > Len(ks) THEN [s EXCEPT !.pc = "return"]
         ELSE IF ks[s.root_i] \in DOMAIN s.index THEN [s EXCEPT !.root_i = @ + 1]
         ELSE TopoStartRoot(s, g, ks)
  ELSE IF s.pc = "pop_scc" THEN TopoPopScc(s, g, ks)
  ELSE IF s.work = <<>> THEN [s EXCEPT !.pc = "for_root", !.root_i = @ + 1]
  ELSE IF s.work[Len(s.work)].it >= Len(g[s.work[Len(s.work)].v])
    THEN TopoFinishFrame(s, g, ks)
  ELSE IF TopoNextW(s, g) \notin DOMAIN s.index THEN TopoDiscover(s, g, ks)
  ELSE IF TopoNextW(s, g) \in s.on_stack THEN TopoOnStackEdge(s, g, ks)
  ELSE TopoAdvance(s)

\* the value topo.py's tarjan_sccs(graph) returns
RECURSIVE TopoRun(_, _, _)
TopoRun(s, g, ks) ==
  IF s.pc = "return" THEN s.sccs
  ELSE CHOOSE r \in {TopoRun(n, g, ks) : n \in {TopoStep(s, g, ks)}} : TRUE

topo_tarjan_sccs(g, ks) == TopoRun(TopoLocals, g, ks)

\* ---- tarjan_sccs as a state machine ---------------------------------------
dvars == <<call, summary, force, pc, sccs, total, done, scc_i, usr_j,
           callee_summaries, calls, skipped, returned, summary0, prev, printed, csv>>
vars == <<graph, keys, t, call, summary, force, pc, sccs, total, done, scc_i, usr_j,
          callee_summaries, calls, skipped, returned, summary0, prev, printed, hist, csv>>

\* ---- what a run of tarjan_sccs has done so far ----------------------------
NoHist == [steps |-> 0, indexed |-> <<>>, pushed |-> <<>>, framed |-> <<>>,
           examined |-> <<>>]

Incr(f, x) == IF x \in DOMAIN f THEN [f EXCEPT ![x] = @ + 1] ELSE f @@ (x :> 1)

\* one more turn of a loop
HistStep(hh) == [hh EXCEPT !.steps = @ + 1]

\* lines 59-63 and 70-75: w gets its index, is pushed on stack and gets a frame
\* on work
HistVisit(hh, w) ==
  [hh EXCEPT !.indexed = Incr(@, w), !.pushed = Incr(@, w), !.framed = Incr(@, w)]

\* line 68, w = next(neighbours): the entry of the top frame's list is examined
HistNext(hh, s) == [hh EXCEPT !.examined = Incr(@, <<Top(s).v, Top(s).it + 1>>)]

NoRun == [status |-> "none", committed |-> {}]

\* main is not running
Idle ==
  /\ call = <<>> /\ summary = <<>> /\ force = FALSE /\ pc = "idle"
  /\ sccs = <<>> /\ total = 0 /\ done = 0 /\ scc_i = 1 /\ usr_j = 1
  /\ callee_summaries = <<>> /\ calls = <<>> /\ skipped = <<>> /\ returned = <<>>
  /\ summary0 = <<>> /\ prev = NoRun /\ printed = <<>> /\ csv = <<>>

\* a call tarjan_sccs(graph): any dict of at most NumIds keys whose adjacency
\* entries are keys, holding at most MaxEdges entries (repeats allowed)
InitT ==
  /\ \E n \in 0..NumIds :
       /\ keys \in KeyOrders(n)
       /\ \E rows \in SeqsUpTo((1..n) \X (1..n), MaxEdges) :
            graph = BuildGraph(keys, rows)
  /\ t = TarjanLocals
  /\ hist = NoHist
  /\ Idle

TSkipRoot ==
  /\ CanSkipRoot(t, graph, keys)
  /\ t' = SkipRoot(t, graph, keys)
  /\ hist' = HistStep(hist)
  /\ UNCHANGED <<graph, keys, dvars>>

TStartRoot ==
  /\ CanStartRoot(t, graph, keys)
  /\ t' = StartRoot(t, graph, keys)
  /\ hist' = HistStep(HistVisit(hist, keys[t.root_i]))
  /\ UNCHANGED <<graph, keys, dvars>>

TReturn ==
  /\ CanReturn(t, graph, keys)
  /\ t' = Return(t, graph, keys)
  /\ hist' = HistStep(hist)
  /\ UNCHANGED <<graph, keys, dvars>>

TDiscover ==
  /\ CanDiscover(t, graph, keys)
  /\ t' = Discover(t, graph, keys)
  /\ hist' = HistStep(HistNext(HistVisit(hist, NextW(t, graph)), t))
  /\ UNCHANGED <<graph, keys, dvars>>

TOnStackEdge ==
  /\ CanOnStackEdge(t, graph, keys)
  /\ t' = OnStackEdge(t, graph, keys)
  /\ hist' = HistStep(HistNext(hist, t))
  /\ UNCHANGED <<graph, keys, dvars>>

TCrossEdge ==
  /\ CanCrossEdge(t, graph, keys)
  /\ t' = CrossEdge(t, graph, keys)
  /\ hist' = HistStep(HistNext(hist, t))
  /\ UNCHANGED <<graph, keys, dvars>>

TFinishFrame ==
  /\ CanFinishFrame(t, graph, keys)
  /\ t' = FinishFrame(t, graph, keys)
  /\ hist' = HistStep(hist)
  /\ UNCHANGED <<graph, keys, dvars>>

TPopScc ==
  /\ CanPopScc(t, graph, keys)
  /\ t' = PopScc(t, graph, keys)
  /\ hist' = HistStep(hist)
  /\ UNCHANGED <<graph, keys, dvars>>

TWorkDone ==
  /\ CanWorkDone(t, graph, keys)
  /\ t' = WorkDone(t, graph, keys)
  /\ hist' = HistStep(hist)
  /\ UNCHANGED <<graph, keys, dvars>>


NextT ==
  \/ TSkipRoot
  \/ TStartRoot
  \/ TReturn
  \/ TDiscover
  \/ TOnStackEdge
  \/ TCrossEdge
  \/ TFinishFrame
  \/ TPopScc
  \/ TWorkDone

SpecT == InitT /\ [][NextT]_vars

\* ---- either tarjan_sccs as a state machine --------------------------------
\* the branch topo.py's tarjan_sccs takes in state s (topo.py lines 33-69)
TopoBranch(s, g, ks) ==
  IF s.pc = "return" THEN "none"
  ELSE IF s.pc = "for_root"
    THEN IF s.root_i > Len(ks) THEN "return"
         ELSE IF ks[s.root_i] \in DOMAIN s.index THEN "skip_root"
         ELSE "start_root"
  ELSE IF s.pc = "pop_scc" THEN "pop_scc"
  ELSE IF s.work = <<>> THEN "work_done"
  ELSE IF s.work[Len(s.work)].it >= Len(g[s.work[Len(s.work)].v]) THEN "finish_frame"
  ELSE IF TopoNextW(s, g) \notin DOMAIN s.index THEN "discover"
  ELSE IF TopoNextW(s, g) \in s.on_stack THEN "on_stack_edge"
  ELSE "cross_edge"

\* topo.py's tarjan_sccs takes branch b
TopoTakes(b) ==
  /\ pc = "topo_tarjan"
  /\ TopoBranch(t, graph, keys) = b
  /\ t' = TopoStep(t, graph, keys)
  /\ UNCHANGED <<graph, keys, dvars>>

TopoTSkipRoot == TopoTakes("skip_root") /\ hist' = HistStep(hist)

TopoTStartRoot ==
  TopoTakes("start_root") /\ hist' = HistStep(HistVisit(hist, keys[t.root_i]))

TopoTReturn == TopoTakes("return") /\ hist' = HistStep(hist)

TopoTDiscover ==
  TopoTakes("discover")
    /\ hist' = HistStep(HistNext(HistVisit(hist, TopoNextW(t, graph)), t))

TopoTOnStackEdge == TopoTakes("on_stack_edge") /\ hist' = HistStep(HistNext(hist, t))

TopoTCrossEdge == TopoTakes("cross_edge") /\ hist' = HistStep(HistNext(hist, t))

TopoTFinishFrame == TopoTakes("finish_frame") /\ hist' = HistStep(hist)

TopoTPopScc == TopoTakes("pop_scc") /\ hist' = HistStep(hist)

TopoTWorkDone == TopoTakes("work_done") /\ hist' = HistStep(hist)

\* summarize.py's tarjan_sccs takes a step
SummarizeT == pc = "idle" /\ NextT

\* a call of the tarjan_sccs of summarize.py (pc = "idle") or of topo.py on any
\* closed graph
InitTT ==
  /\ \E n \in 0..NumIds :
       /\ keys \in KeyOrders(n)
       /\ \E rows \in SeqsUpTo((1..n) \X (1..n), MaxEdges) :
            graph = BuildGraph(keys, rows)
  /\ pc \in {"idle", "topo_tarjan"}
  /\ t = IF pc = "idle" THEN TarjanLocals ELSE TopoLocals
  /\ hist = NoHist
  /\ call = <<>> /\ summary = <<>> /\ force = FALSE
  /\ sccs = <<>> /\ total = 0 /\ done = 0 /\ scc_i = 1 /\ usr_j = 1
  /\ callee_summaries = <<>> /\ calls = <<>> /\ skipped = <<>> /\ returned = <<>>
  /\ summary0 = <<>> /\ prev = NoRun /\ printed = <<>> /\ csv = <<>>

NextTT ==
  \/ SummarizeT
  \/ TopoTSkipRoot
  \/ TopoTStartRoot
  \/ TopoTReturn
  \/ TopoTDiscover
  \/ TopoTOnStackEdge
  \/ TopoTCrossEdge
  \/ TopoTFinishFrame
  \/ TopoTPopScc
  \/ TopoTWorkDone

\* the function runs in one thread and nothing stops it: it keeps taking its
\* next step
SpecTT == InitTT /\ [][NextTT]_vars /\ WF_vars(NextTT)

\* ---- main: the driver (summarize.py lines 121-198) --------------------------
\* names[usr], the fully qualified name of the def row
Fqn(usr) == <<"fqn", usr>>

\* the tables summary can be over the usrs S
Tables(S) == UNION {[D -> Texts] : D \in SUBSET S}

\* the contents table call can have (load.py lines 59-64): its primary key is
\* (caller_usr, callee_usr), the caller is a def row, the callee a def row or an
\* external identifier
CallRows(n) ==
  {rows \in SeqsUpTo((1..n) \X ((1..n) \cup {External}), MaxCalls) :
     \A i, j \in 1..Len(rows) : rows[i] = rows[j] => i = j}

\* the cache check that does not look at --force
CacheHit_IgnoreForce(tbl, usr, f) == usr \in DOMAIN tbl

\* the cache check that never finds a row
CacheHit_Never(tbl, usr, f) == FALSE

\* the cache check whose query has lost its WHERE clause
CacheHit_AnyRow(tbl, usr, f) == ~f /\ DOMAIN tbl # {}

\* lines 165-169: not args.force and SELECT 1 FROM summary WHERE usr = ? finds a row
CacheHit(tbl, usr, f) == ~f /\ usr \in DOMAIN tbl

RECURSIVE Collect(_, _, _, _, _)
Collect(adj, i, scc_set, tbl, acc) ==
  IF i > Len(adj) THEN acc
  ELSE LET callee_usr == adj[i]
       IN IF callee_usr \in scc_set
            THEN Collect(adj, i + 1, scc_set, tbl, acc)
            ELSE IF callee_usr \in DOMAIN tbl
                   THEN Collect(adj, i + 1, scc_set, tbl,
                                Append(acc, <<Fqn(callee_usr), tbl[callee_usr]>>))
                   ELSE Collect(adj, i + 1, scc_set, tbl, acc)

\* the callee loop without the scc_set test of lines 177-178
CalleeSummaries_NoSccTest(g, tbl, scc, usr) == Collect(g[usr], 1, {}, tbl, <<>>)

\* the callee rows collected in the opposite order
CalleeSummaries_Reversed(g, tbl, scc, usr) ==
  LET r == Collect(g[usr], 1, Range(scc), tbl, <<>>)
  IN [k \in 1..Len(r) |-> r[Len(r) + 1 - k]]

\* lines 175-185: the (fqn, summary) rows of the callees outside the component
\* that have a summary, in adjacency order
CalleeSummaries(g, tbl, scc, usr) == Collect(g[usr], 1, Range(scc), tbl, <<>>)

\* a write that is not committed: the table is as it was
Upsert_Lost(tbl, usr, result) == tbl

\* a write that leaves the new row as the only row of the table
Upsert_ReplaceAll(tbl, usr, result) == (usr :> result)

\* INSERT OR IGNORE: an existing row is kept
Upsert_Ignore(tbl, usr, result) ==
  IF usr \in DOMAIN tbl THEN tbl ELSE tbl @@ (usr :> result)

\* lines 190-194: INSERT OR REPLACE INTO summary, committed
Upsert(tbl, usr, result) ==
  IF usr \in DOMAIN tbl THEN [tbl EXCEPT ![usr] = result] ELSE tbl @@ (usr :> result)

\* a failed call leaves a placeholder row behind
AfterRaise_Placeholder(tbl, usr) ==
  IF usr \in DOMAIN tbl THEN tbl ELSE tbl @@ (usr :> 1)

\* line 188 raises: lines 190-194 are not reached, the table is as it was
AfterRaise(tbl, usr) == tbl

\* total = len(sccs): the components are counted, not their members
SumLen_Components(cs, i) == Len(cs)

\* total = sum(len(s) for s in sccs)
RECURSIVE SumLen(_, _)
SumLen(cs, i) == IF i > Len(cs) THEN 0 ELSE Len(cs[i]) + SumLen(cs, i + 1)

\* the inner loop that does not move on to the next usr
LoopPos_NoAdvance(cs, i, j) ==
  IF i > Len(cs) THEN <<i, 1>> ELSE <<i, IF j > 1 THEN j - 1 ELSE j>>

\* the nested for loops (lines 156, 161): the next position <<scc_i, usr_j>> at
\* or after <<i, j>> that holds a usr; scc_i is past the end when there is none
RECURSIVE LoopPos(_, _, _)
LoopPos(cs, i, j) ==
  IF i > Len(cs) THEN <<i, 1>>
  ELSE IF j > Len(cs[i]) THEN LoopPos(cs, i + 1, 1)
  ELSE <<i, j>>

LoopEnd == scc_i > Len(sccs)
Usr == sccs[scc_i][usr_j]

\* The database main is started on: n def rows, any call rows, any summary rows
\* left by earlier runs (line 131 keeps an existing table).  The usr of the
\* i-th row the def query returns is called i; the call rows range over every
\* list of pairs of these names, so every combination of call graph and row
\* order of the def query occurs up to this renaming.
Init ==
  /\ \E n \in 0..NumIds :
       /\ keys = [i \in 1..n |-> i]
       /\ call \in CallRows(n)
       /\ summary \in Tables(1..n)
  /\ force \in BOOLEAN
  /\ pc = "start"
  /\ graph = <<>> /\ t = TarjanLocals
  /\ sccs = <<>> /\ total = 0 /\ done = 0 /\ scc_i = 1 /\ usr_j = 1
  /\ callee_summaries = <<>> /\ calls = <<>> /\ skipped = <<>> /\ returned = <<>>
  /\ summary0 = summary
  /\ prev = NoRun
  /\ printed = <<>>
  /\ hist = NoHist
  /\ csv = <<>>

\* lines 129-154: read the rows, build the graph, decompose it
Load ==
  /\ pc = "start"
  /\ LET g == BuildGraph(keys, call)
         cs == tarjan_sccs(g, keys)
     IN /\ graph' = g
        /\ sccs' = cs
        /\ total' = SumLen(cs, 1)
        /\ scc_i' = LoopPos(cs, 1, 1)[1]
        /\ usr_j' = LoopPos(cs, 1, 1)[2]
  /\ done' = 0
  /\ pc' = "for_usr"
  /\ UNCHANGED <<keys, t, call, summary, force, callee_summaries, calls, skipped, returned,
                 summary0, prev, printed, hist, csv>>

\* lines 161-171: the usr has a summary and --force is not given
Skip ==
  /\ pc = "for_usr" /\ ~LoopEnd
  /\ CacheHit(summary, Usr, force)
  /\ done' = done + 1
  /\ scc_i' = LoopPos(sccs, scc_i, usr_j + 1)[1]
  /\ usr_j' = LoopPos(sccs, scc_i, usr_j + 1)[2]
  /\ UNCHANGED <<graph, keys, t, call, summary, force, pc, sccs, total,
                 callee_summaries, calls, returned, summary0, prev, hist, csv>>
  /\ skipped' = Append(skipped, Usr)
  /\ printed' = Append(printed, <<done', total>>)

\* lines 161-188: collect the callee summaries and call summarize
Invoke ==
  /\ pc = "for_usr" /\ ~LoopEnd
  /\ ~CacheHit(summary, Usr, force)
  /\ done' = done + 1
  /\ callee_summaries' = CalleeSummaries(graph, summary, sccs[scc_i], Usr)
  /\ calls' = Append(calls, Usr)
  /\ pc' = "summarize"
  /\ UNCHANGED <<graph, keys, t, call, summary, force, sccs, total, scc_i, usr_j,
                 skipped, returned, summary0, prev, printed, hist, csv>>

\* lines 188-195: summarize returns a text; the row is written and committed
Summarized ==
  /\ pc = "summarize"
  /\ \E result \in Texts :
       /\ summary' = Upsert(summary, Usr, result)
       /\ returned' = [u \in DOMAIN returned \cup {Usr} |->
                         IF u = Usr THEN result ELSE returned[u]]
  /\ callee_summaries' = <<>>
  /\ scc_i' = LoopPos(sccs, scc_i, usr_j + 1)[1]
  /\ usr_j' = LoopPos(sccs, scc_i, usr_j + 1)[2]
  /\ pc' = "for_usr"
  /\ printed' = Append(printed, <<done, total>>)
  /\ UNCHANGED <<graph, keys, t, call, force, sccs, total, done, calls, skipped,
                 summary0, prev, hist, csv>>

\* line 188: summarize raises; nothing catches it, main ends
SummarizeRaises ==
  /\ pc = "summarize"
  /\ summary' = AfterRaise(summary, Usr)
  /\ pc' = "raised"
  /\ UNCHANGED <<graph, keys, t, call, force, sccs, total, done, scc_i, usr_j,
                 callee_summaries, calls, skipped, returned, summary0, prev, printed, hist, csv>>

\* the process is interrupted inside the loop: before a usr, or while summarize
\* is outstanding (an uncommitted insert is lost with it)
Interrupt ==
  /\ \/ pc = "for_usr" /\ ~LoopEnd
     \/ pc = "summarize"
  /\ pc' = "interrupted"
  /\ UNCHANGED <<graph, keys, t, call, summary, force, sccs, total, done, scc_i, usr_j,
                 callee_summaries, calls, skipped, returned, summary0, prev, printed, hist, csv>>

\* lines 197-198: the loops are over
Exit ==
  /\ pc = "for_usr" /\ LoopEnd
  /\ pc' = "exit"
  /\ UNCHANGED <<graph, keys, t, call, summary, force, sccs, total, done, scc_i, usr_j,
                 callee_summaries, calls, skipped, returned, summary0, prev, printed, hist, csv>>

\* main is started again on the same database, with or without --force
Rerun ==
  /\ pc \in {"exit", "raised", "interrupted"}
  /\ prev' = [status |-> IF pc = "exit" THEN "completed" ELSE "aborted",
              committed |-> DOMAIN returned]
  /\ force' \in BOOLEAN
  /\ pc' = "start"
  /\ graph' = <<>>
  /\ sccs' = <<>> /\ total' = 0 /\ done' = 0 /\ scc_i' = 1 /\ usr_j' = 1
  /\ callee_summaries' = <<>> /\ calls' = <<>> /\ skipped' = <<>> /\ returned' = <<>>
  /\ summary0' = summary
  /\ printed' = <<>>
  /\ UNCHANGED <<keys, t, call, summary, hist, csv>>

Next ==
  \/ Load
  \/ Skip
  \/ Invoke
  \/ Summarized
  \/ SummarizeRaises
  \/ Interrupt
  \/ Exit
  \/ Rerun

Spec == Init /\ [][Next]_vars

\* one run in which summarize always returns and nothing interrupts main: the
\* program keeps taking its next step
NextRun ==
  \/ Load
  \/ Skip
  \/ Invoke
  \/ Summarized
  \/ Exit

SpecRun == Init /\ [][NextRun]_vars /\ WF_vars(NextRun)

\* ---- the graph builders on any call table --------------------------------
\* Nothing enforces the reference of caller_usr to def: a row of table call can
\* name a caller or a callee that has no def row.
AnyCallRows(n) ==
  {rows \in SeqsUpTo(((1..n) \cup {External}) \X ((1..n) \cup {External}), MaxRows) :
     \A i, j \in 1..Len(rows) : rows[i] = rows[j] => i = j}

\* summarize.py or topo.py is started on a database with n def rows (named in
\* the order the def query returns them) and any call rows
InitG ==
  /\ \E n \in 0..NumIds :
       /\ keys = [i \in 1..n |-> i]
       /\ call \in AnyCallRows(n)
  /\ pc \in {"start", "topo_start"}
  /\ summary = <<>> /\ force = FALSE
  /\ graph = <<>> /\ t = TarjanLocals
  /\ sccs = <<>> /\ total = 0 /\ done = 0 /\ scc_i = 1 /\ usr_j = 1
  /\ callee_summaries = <<>> /\ calls = <<>> /\ skipped = <<>> /\ returned = <<>>
  /\ summary0 = <<>>
  /\ prev = NoRun
  /\ printed = <<>>
  /\ hist = NoHist
  /\ csv = <<>>

\* topo.py main, lines 80-92: read the rows and build the graph
TopoBuild ==
  /\ pc = "topo_start"
  /\ graph' = TopoBuildGraph(keys, call)
  /\ pc' = "topo_built"
  /\ UNCHANGED <<keys, t, call, summary, force, sccs, total, done, scc_i, usr_j,
                 callee_summaries, calls, skipped, returned, summary0, prev, printed, hist, csv>>

NextG ==
  \/ Load
  \/ TopoBuild

SpecG == InitG /\ [][NextG]_vars

\* ---- load.py: load_csv into table call -----------------------------------
\* a table without the primary key: every row is stored
ReplaceRow_NoKey(tbl, r) == Append(tbl, r)

\* INSERT OR REPLACE INTO call (load.py line 127) under PRIMARY KEY
\* (caller_usr, callee_usr): the stored row with the same key is deleted and
\* the new row is stored after all others
ReplaceRow(tbl, r) == Append(SelectSeq(tbl, LAMBDA x : x # r), r)

\* conn.executemany(sql, rows), line 134
RECURSIVE ExecuteMany(_, _, _)
ExecuteMany(tbl, rows, i) ==
  IF i > Len(rows) THEN tbl ELSE ExecuteMany(ReplaceRow(tbl, rows[i]), rows, i + 1)

load_csv(tbl, rows) == ExecuteMany(tbl, rows, 1)

\* the rows a call CSV or table can hold over n def usrs and an external usr
CallPairs(n) == ((1..n) \cup {External}) \X ((1..n) \cup {External})

\* load.py --call is started on a database with n def rows and at most MaxOld
\* call rows, with a CSV of at most MaxRows rows in which rows can repeat
InitL ==
  /\ \E n \in 0..NumIds :
       /\ keys = [i \in 1..n |-> i]
       /\ call \in {rows \in SeqsUpTo(CallPairs(n), MaxOld) :
                     \A i, j \in 1..Len(rows) : rows[i] = rows[j] => i = j}
       /\ csv \in SeqsUpTo(CallPairs(n), MaxRows)
  /\ pc = "load_start"
  /\ summary = <<>> /\ force = FALSE
  /\ graph = <<>> /\ t = TarjanLocals
  /\ sccs = <<>> /\ total = 0 /\ done = 0 /\ scc_i = 1 /\ usr_j = 1
  /\ callee_summaries = <<>> /\ calls = <<>> /\ skipped = <<>> /\ returned = <<>>
  /\ summary0 = <<>>
  /\ prev = NoRun
  /\ printed = <<>>
  /\ hist = NoHist

\* load.py --call FILE: the first time, and once more with the same file
LoadCall ==
  /\ pc \in {"load_start", "loaded"}
  /\ call' = load_csv(call, csv)
  /\ pc' = IF pc = "load_start" THEN "loaded" ELSE "reloaded"
  /\ UNCHANGED <<graph, keys, t, summary, force, sccs, total, done, scc_i, usr_j,
                 callee_summaries, calls, skipped, returned, summary0, prev, printed,
                 hist, csv>>

\* summarize.py or topo.py is started on the loaded database
RunMain ==
  /\ pc \in {"loaded", "reloaded"}
  /\ pc' \in {"start", "topo_start"}
  /\ UNCHANGED <<graph, keys, t, call, summary, force, sccs, total, done, scc_i, usr_j,
                 callee_summaries, calls, skipped, returned, summary0, prev, printed,
                 hist, csv>>

NextL ==
  \/ LoadCall
  \/ RunMain
  \/ Load
  \/ TopoBuild

SpecL == InitL /\ [][NextL]_vars

\* ---- properties of the returned list ---------------------------------------
KeySet == Range(keys)

\* the places <<i, j>> of the list of lists cs that hold x
Places(cs, x) == {ij \in (1..Len(cs)) \X Ids : ij[2] <= Len(cs[ij[1]]) /\ cs[ij[1]][ij[2]] = x}

\* the position in cs of the (first) component holding x
Comp(cs, x) == CHOOSE i \in 1..Len(cs) : x \in Range(cs[i])

\* the vertices reachable from the set S along edges of g (S included)
RECURSIVE Closure(_, _)
Closure(S, g) ==
  LET T == S \cup UNION {Range(g[x]) : x \in S}
  IN IF T = S THEN S ELSE Closure(T, g)

Reaches(g, u, v) == v \in Closure({u}, g)

MutuallyReachable(g, u, v) == Reaches(g, u, v) /\ Reaches(g, v, u)

Returned == t.pc = "return"

\* C1: when tarjan_sccs returns, its list is a partition of the key set: no
\* component is empty, every key occurs at exactly one place of the list, and
\* nothing but keys occurs in it.
C1_Partition ==
  Returned =>
    /\ \A i \in 1..Len(t.sccs) : Len(t.sccs[i]) > 0
    /\ \A k \in KeySet : Cardinality(Places(t.sccs, k)) = 1
    /\ \A i \in 1..Len(t.sccs) : Range(t.sccs[i]) \subseteq KeySet

\* C1 witness: a returned list over three keys with a component of two members
\* and a second component
C1_Witness ==
  /\ Returned
  /\ Len(keys) = 3
  /\ Len(t.sccs) = 2
  /\ \E i \in 1..Len(t.sccs) : Len(t.sccs[i]) = 2

\* C2: when tarjan_sccs returns, for every edge u -> v whose ends are in
\* different components, v's component comes strictly earlier in the list
\* than u's, for every key order.
C2_CalleeFirst ==
  Returned =>
    \A u \in KeySet : \A v \in Range(graph[u]) :
      Comp(t.sccs, u) # Comp(t.sccs, v) => Comp(t.sccs, v) < Comp(t.sccs, u)

\* C2 witness: a vertex with two callees in two other components, one of which
\* the key order iterates before it and one after it
C2_Witness ==
  /\ Returned
  /\ \E i, j, k \in 1..Len(keys) :
       /\ i < j /\ j < k
       /\ keys[i] \in Range(graph[keys[j]])
       /\ keys[k] \in Range(graph[keys[j]])
       /\ Len(t.sccs) = 3

\* C3: when tarjan_sccs returns, two keys are in the same component exactly
\* when each is reachable from the other.
C3_SameCompIffMutual ==
  Returned =>
    \A u, v \in KeySet :
      (Comp(t.sccs, u) = Comp(t.sccs, v)) <=> MutuallyReachable(graph, u, v)

\* C3 witness: a cycle of two with a tail: the cycle is one component and the
\* tail vertex, which calls into the cycle, is another
C3_Witness ==
  /\ Returned
  /\ \E u, v, w \in KeySet :
       /\ u # v /\ w # u /\ w # v
       /\ v \in Range(graph[u]) /\ u \in Range(graph[v])
       /\ u \in Range(graph[w])
       /\ Comp(t.sccs, u) = Comp(t.sccs, v)
       /\ Comp(t.sccs, w) # Comp(t.sccs, u)

\* ---- properties of the driver ----------------------------------------------
\* the row of usr u in table tbl; <<>> when there is none
Row(tbl, u) == IF u \in DOMAIN tbl THEN <<tbl[u]>> ELSE <<>>

\* a step of the running main
RunStep == Load \/ Skip \/ Invoke \/ Summarized \/ SummarizeRaises \/ Interrupt \/ Exit

\* C4: whenever summarize is called for a usr, every callee of it that is in
\* another component has a committed row in summary, with or without --force
\* and whatever the table held when the run started.
C4_CalleesCommitted ==
  pc = "summarize" =>
    \A c \in Range(graph[Usr]) :
      Comp(sccs, c) # Comp(sccs, Usr) => c \in DOMAIN summary

\* C4 witness: summarize is called for a usr with a callee in another component
\* that had no row when the run started and was summarized by this run
C4_Witness ==
  /\ pc = "summarize"
  /\ \E c \in Range(graph[Usr]) :
       /\ Comp(sccs, c) # Comp(sccs, Usr)
       /\ c \notin DOMAIN summary0
       /\ c \in Range(calls)

\* C5: in a run without --force that follows a completed run, summarize is
\* never called and table summary stays what it was when the run started.
C5_Idempotent ==
  (prev.status = "completed" /\ ~force) => (calls = <<>> /\ summary = summary0)

\* C5 witness: a run without --force has completed after a completed run that
\* summarized two usrs or more
C5_Witness ==
  /\ pc = "exit" /\ ~force
  /\ prev.status = "completed"
  /\ Cardinality(prev.committed) >= 2

\* C6: a completed run with --force has called summarize for every usr, and
\* every usr's row holds the text this run's call returned for it.
C6_ForceRerun ==
  (pc = "exit" /\ force) =>
    /\ Range(calls) = KeySet
    /\ DOMAIN returned = KeySet
    /\ \A u \in KeySet : Row(summary, u) = <<returned[u]>>

\* C6 witness: a completed run with --force has replaced the text of a row that
\* existed when it started
C6_Witness ==
  /\ pc = "exit" /\ force
  /\ \E u \in DOMAIN summary0 : summary[u] # summary0[u]

\* C7: the callee list passed to summarize for a usr has no entry of a member
\* of the usr's own component (the usr itself included).
C7_NoSameComponentEntry ==
  pc = "summarize" =>
    \A k \in 1..Len(callee_summaries) : \A c \in Range(sccs[scc_i]) :
      callee_summaries[k][1] # Fqn(c)

\* C7 witness: summarize is called for a usr that calls another member of its
\* component, and that member has a row in summary
C7_Witness ==
  /\ pc = "summarize"
  /\ \E c \in Range(graph[Usr]) :
       c # Usr /\ c \in Range(sccs[scc_i]) /\ c \in DOMAIN summary

\* C8: when summarize has raised for usr x, the run takes no further step; the
\* rows committed by this run hold the texts returned for them, and every other
\* row, the one of x included, is as it was when the run started.
C8_RaiseAborts ==
  pc = "raised" =>
    /\ calls # <<>> /\ calls[Len(calls)] = Usr
    /\ Usr \notin DOMAIN returned
    /\ \A u \in DOMAIN returned : Row(summary, u) = <<returned[u]>>
    /\ \A u \in KeySet \ DOMAIN returned : Row(summary, u) = Row(summary0, u)
    /\ ~ENABLED RunStep

\* C8 witness: summarize raised under --force for a usr that had a row, after
\* another usr's row was committed by the same run
C8_Witness ==
  /\ pc = "raised" /\ force
  /\ Usr \in DOMAIN summary0
  /\ DOMAIN returned # {}

\* C9: in a run without --force that follows an aborted run, summarize is
\* called only for usrs that had no row when the run started, never for a usr
\* the aborted run committed, and when the run completes every usr has a row.
C9_Resume ==
  (prev.status = "aborted" /\ ~force) =>
    /\ Range(calls) \cap DOMAIN summary0 = {}
    /\ Range(calls) \cap prev.committed = {}
    /\ pc = "exit" => DOMAIN summary = KeySet

\* C9 witness: a run without --force has completed after an aborted run that
\* had committed a row, and it called summarize itself
C9_Witness ==
  /\ pc = "exit" /\ ~force
  /\ prev.status = "aborted"
  /\ prev.committed # {}
  /\ calls # <<>>

\* C10: a step taken when the loop is at a usr that has a row and --force is
\* not given calls summarize for nothing and leaves table summary unchanged.
C10_SkipLeavesRow ==
  [][(pc = "for_usr" /\ ~LoopEnd /\ ~force /\ Usr \in DOMAIN summary)
       => (calls' = calls /\ summary' = summary /\ pc' # "summarize")]_vars

\* C10 witness: a first run without --force on a table that held rows for some
\* usrs only has skipped one usr and summarized another
C10_Witness ==
  /\ pc = "exit" /\ ~force
  /\ prev.status = "none"
  /\ DOMAIN summary0 # {} /\ DOMAIN summary0 # KeySet
  /\ calls # <<>>

\* the callee is not a member of the component the loop is at
OutsideScc(c) == c \notin Range(sccs[scc_i])

\* C11: the callee list passed to summarize for a usr is its adjacency list
\* without the members of its component, in adjacency order, each callee given
\* as its fully qualified name with the text its row in summary holds; every
\* callee outside the component has such a row.
C11_ContextIsFilteredAdjacency ==
  pc = "summarize" =>
    LET others == SelectSeq(graph[Usr], OutsideScc)
    IN /\ Len(callee_summaries) = Len(others)
       /\ \A k \in 1..Len(others) :
            /\ others[k] \in DOMAIN summary
            /\ callee_summaries[k] = <<Fqn(others[k]), summary[others[k]]>>

\* C11 witness: summarize is called with two callee entries whose texts differ
C11_Witness ==
  /\ pc = "summarize"
  /\ Len(callee_summaries) = 2
  /\ callee_summaries[1][2] # callee_summaries[2][2]

NoRepeat(q) == \A i, j \in 1..Len(q) : q[i] = q[j] => i = j

\* where a usr is in pending -> (skipped | enriching -> enriched) in this run
StateOf(u) ==
  IF u \in Range(skipped) THEN "skipped"
  ELSE IF u \in DOMAIN returned THEN "enriched"
  ELSE IF u \in Range(calls) THEN "enriching"
  ELSE "pending"

\* C12: in a run summarize is called at most once for a usr and a usr is
\* skipped at most once; no usr is both skipped and summarized; only the usr
\* the loop is at can be enriching, and it is not enriched already; when the
\* run completes every usr is either skipped or enriched.
C12_OncePerRun ==
  /\ NoRepeat(calls) /\ NoRepeat(skipped)
  /\ Range(calls) \cap Range(skipped) = {}
  /\ DOMAIN returned \subseteq Range(calls)
  /\ \A u \in KeySet : StateOf(u) = "enriching" =>
       /\ pc \in {"summarize", "raised", "interrupted"}
       /\ u = Usr
  /\ pc = "summarize" => Usr \notin DOMAIN returned
  /\ Len(calls) + Len(skipped) = done
  /\ pc = "exit" => \A u \in KeySet : StateOf(u) \in {"skipped", "enriched"}

\* C12 witness: a completed run over three usrs has skipped one and summarized
\* the two others
C12_Witness ==
  /\ pc = "exit"
  /\ Len(skipped) = 1
  /\ Len(calls) = 2
  /\ Len(keys) = 3

\* the callees of the call rows of caller u whose callee has a def row, in row order
KeptCallees(u) ==
  LET kept == SelectSeq(call, LAMBDA r : r[1] = u /\ r[2] \in KeySet)
  IN [k \in 1..Len(kept) |-> kept[k][2]]

\* C13: the graph either program builds has exactly the def usrs as keys, and
\* the adjacency list of u is the list of callees of the call rows (u, v) with
\* u and v both def usrs; rows with an external caller or callee leave no trace.
C13_GraphBuilt ==
  pc \in {"for_usr", "topo_built"} =>
    /\ DOMAIN graph = KeySet
    /\ \A u \in KeySet : graph[u] = KeptCallees(u)

\* C13 witness: a graph built from a row that is kept, a row with an external
\* callee and a row with an external caller, with a usr that no kept row names
C13_Witness ==
  /\ pc \in {"for_usr", "topo_built"}
  /\ \E i, j, k \in 1..Len(call) :
       /\ call[i][1] \in KeySet /\ call[i][2] \in KeySet
       /\ call[j][1] \in KeySet /\ call[j][2] = External
       /\ call[k][1] = External /\ call[k][2] \in KeySet
  /\ \E u \in KeySet : graph[u] = <<>> /\ \A w \in KeySet : u \notin Range(graph[w])

\* C14: a run in which summarize never fails reaches the end of main, and then
\* every usr has a row in summary.
C14_RunCompletes == <>(pc = "exit" /\ DOMAIN summary = KeySet)

\* C14 witness: a completed run has summarized both members of a cycle of two
C14_Witness ==
  /\ pc = "exit"
  /\ \E u, v \in KeySet :
       /\ u # v
       /\ v \in Range(graph[u]) /\ u \in Range(graph[v])
       /\ {u, v} \subseteq Range(calls)
       /\ {u, v} \subseteq DOMAIN summary

\* x lies on a cycle of g: some callee of x reaches x
OnCycle(g, x) == \E y \in Range(g[x]) : Reaches(g, y, x)

\* C15: when tarjan_sccs returns, a key x is the only member of its component
\* and has no edge to itself exactly when x lies on no cycle of the graph.
C15_SingletonIffAcyclic ==
  Returned =>
    \A x \in KeySet :
      ((\E i \in 1..Len(t.sccs) : t.sccs[i] = <<x>>) /\ x \notin Range(graph[x]))
        <=> ~OnCycle(graph, x)

\* C15 witness: a returned list for a graph with a key on no cycle, alone in
\* its component, that calls a key lying on a cycle of two keys
C15_Witness ==
  /\ Returned
  /\ \E x, y, z \in KeySet :
       /\ Cardinality({x, y, z}) = 3
       /\ ~OnCycle(graph, x) /\ y \in Range(graph[x])
       /\ z \in Range(graph[y]) /\ y \in Range(graph[z])
       /\ \E i \in 1..Len(t.sccs) : t.sccs[i] = <<x>>

\* C16: no step of any run, forced or not, failing or not, removes a row of
\* summary, and a step changes the text of an existing row only when the run
\* was started with --force.
C16_RowsKept ==
  [][/\ DOMAIN summary \subseteq DOMAIN summary'
     /\ \A u \in DOMAIN summary : summary'[u] # summary[u] => force]_vars

\* C16 witness: a run with --force that follows an aborted run and itself ends
\* in a failure has rewritten an old row and added a new one
C16_Witness ==
  /\ prev.status = "aborted"
  /\ force
  /\ pc \in {"raised", "interrupted"}
  /\ \E u \in DOMAIN summary0 : summary[u] # summary0[u]
  /\ \E v \in DOMAIN summary : v \notin DOMAIN summary0

\* the usrs summarize was called for in this run whose returned text is not
\* the text of their row in summary
Uncommitted ==
  {u \in Range(calls) : u \notin DOMAIN returned \/ Row(summary, u) # <<returned[u]>>}

\* C18: when summarize is called for a usr, the text returned for every usr it
\* was called for earlier in the run is in summary, members of the same
\* component included; at every point of a run at most one usr has had
\* summarize called without its text being in summary.
C18_CommittedBeforeNext ==
  /\ \A k \in 1..(Len(calls) - 1) : calls[k] \notin Uncommitted
  /\ Cardinality(Uncommitted) <= 1

\* C18 witness: summarize is being called for the second member of a component
\* whose first member was summarized by this run and has its row
C18_Witness ==
  /\ pc = "summarize"
  /\ Len(calls) = 2
  /\ calls[1] # Usr /\ calls[1] \in Range(sccs[scc_i])
  /\ Row(summary, calls[1]) = <<returned[calls[1]]>>
  /\ Uncommitted = {Usr}

\* C19: for every graph and key order, the list summarize.py's tarjan_sccs
\* returns is the list topo.py's tarjan_sccs returns: the same components in
\* the same order with the same member order.
C19_SameAsTopo ==
  Returned => t.sccs = topo_tarjan_sccs(graph, keys)

\* C19 witness: both return the same two components for a graph in which a
\* frame with a parent frame finishes with a lowlink below its index
C19_Witness ==
  /\ Returned
  /\ Len(keys) = 3
  /\ Len(topo_tarjan_sccs(graph, keys)) = 2
  /\ \E i \in 1..Len(t.sccs) : Len(t.sccs[i]) = 2
  /\ \E x \in KeySet : t.lowlink[x] < t.index[x] /\ x # keys[1]

\* x has an edge to itself and is on no cycle through another vertex
SelfLoopOnly(g, x) ==
  /\ x \in Range(g[x])
  /\ \A y \in DOMAIN g : y # x => ~MutuallyReachable(g, x, y)

\* C20: when tarjan_sccs returns, a key with a self-loop that lies on no other
\* cycle occurs at exactly one place of the list, and that place is a
\* component of which it is the only member.
C20_SelfLoopAlone ==
  Returned =>
    \A x \in KeySet : SelfLoopOnly(graph, x) =>
      /\ Cardinality(Places(t.sccs, x)) = 1
      /\ \E i \in 1..Len(t.sccs) : t.sccs[i] = <<x>>

\* C20 witness: a returned list in which a key with a self-loop, called by
\* one key and calling another, is a component of its own
C20_Witness ==
  /\ Returned
  /\ \E x, y, z \in KeySet :
       /\ Cardinality({x, y, z}) = 3
       /\ SelfLoopOnly(graph, x)
       /\ x \in Range(graph[y]) /\ z \in Range(graph[x])
       /\ \E i \in 1..Len(t.sccs) : t.sccs[i] = <<x>>

\* C21: in a run with --force, every (fqn, summary) row passed to summarize
\* for a usr names a callee summarize has returned for in this run, and its
\* text is the text returned in this run, whatever the row held at the start.
C21_ForcedContextIsFresh ==
  (pc = "summarize" /\ force) =>
    \A k \in 1..Len(callee_summaries) :
      \E c \in Range(graph[Usr]) :
        /\ callee_summaries[k][1] = Fqn(c)
        /\ c \in DOMAIN returned
        /\ callee_summaries[k][2] = returned[c]

\* C21 witness: with --force summarize is called for a usr with a row for a
\* callee whose text before the run was another text than the one passed
C21_Witness ==
  /\ pc = "summarize" /\ force
  /\ \E c \in Range(graph[Usr]) :
       /\ c \in DOMAIN summary0 /\ c \in DOMAIN returned
       /\ summary0[c] # returned[c]
       /\ callee_summaries = <<<<Fqn(c), returned[c]>>>>

\* C22: the k-th line a run prints shows the counter k and the number of def
\* usrs as total; a line is printed for every usr reached, skipped or
\* summarized (the usr summarize is outstanding for has none yet); the counter
\* never exceeds total, and the last line of a completed run shows total.
C22_ProgressCounter ==
  /\ \A k \in 1..Len(printed) : printed[k] = <<k, total>>
  /\ pc \in {"for_usr", "exit"} => Len(printed) = done
  /\ pc \in {"summarize", "raised"} => Len(printed) = done - 1
  /\ Len(printed) = Len(skipped) + Cardinality(DOMAIN returned)
  /\ done <= total
  /\ pc # "start" => total = Cardinality(KeySet)
  /\ pc = "exit" => Len(printed) = total

\* C22 witness: a completed run over three usrs, two of them in one component,
\* has printed 1/3, 2/3, 3/3 for a usr it skipped and two it summarized
C22_Witness ==
  /\ pc = "exit"
  /\ printed = <<<<1, 3>>, <<2, 3>>, <<3, 3>>>>
  /\ Len(sccs) = 2
  /\ Len(skipped) = 1 /\ Len(calls) = 2

\* the adjacency entries of the graph: <<v, i>> is the i-th entry of graph[v]
Entries == {e \in KeySet \X (1..MaxEdges) : e[2] <= Len(graph[e[1]])}

Once(f) == \A x \in DOMAIN f : f[x] = 1

\* C23: in a run of tarjan_sccs no vertex gets an index, is pushed on stack or
\* gets a frame on work more than once and no adjacency entry is examined more
\* than once; when it returns each has happened exactly once for every key and
\* every entry; the loop turns taken never number more than four per key plus
\* one per entry plus one.
C23_LinearWork ==
  /\ Once(hist.indexed) /\ Once(hist.pushed) /\ Once(hist.framed)
  /\ Once(hist.examined)
  /\ hist.steps <= 4 * Len(keys) + Cardinality(Entries) + 1
  /\ Returned =>
       /\ DOMAIN hist.indexed = KeySet
       /\ DOMAIN hist.pushed = KeySet
       /\ DOMAIN hist.framed = KeySet
       /\ DOMAIN hist.examined = Entries

\* C23 witness: a return after as many loop turns as the bound allows, on a
\* graph of three keys and three entries in which every key is a root
C23_Witness ==
  /\ Returned
  /\ Len(keys) = 3 /\ Cardinality(Entries) = 3
  /\ Len(t.sccs) = 3
  /\ hist.steps = 4 * Len(keys) + Cardinality(Entries) + 1

\* C24: the graph main of summarize.py and main of topo.py build and hand to
\* tarjan_sccs is closed: every entry of every adjacency list is a key of the
\* graph, whatever rows the call table holds.
C24_GraphClosed ==
  pc \in {"for_usr", "topo_built"} =>
    \A u \in DOMAIN graph : Range(graph[u]) \subseteq DOMAIN graph

\* C24 witness: a graph built from a call table in which a caller with a kept
\* row also has a row to a callee without a def row
C24_Witness ==
  /\ pc \in {"for_usr", "topo_built"}
  /\ \E u \in KeySet :
       /\ graph[u] # <<>>
       /\ \E i \in 1..Len(call) : call[i] = <<u, External>>

\* C25: every run of either tarjan_sccs on a closed graph reaches its return
\* statement, and then stack, on_stack and work are empty and every key of
\* the graph has an index.
C25_Terminates ==
  <>(/\ Returned
     /\ t.stack = <<>> /\ t.on_stack = {} /\ t.work = <<>>
     /\ DOMAIN t.index = KeySet)

\* C25 witness: topo.py's tarjan_sccs has returned on a graph of three keys
\* with a cycle of two, after pushing and popping every key
C25_Witness ==
  /\ pc = "topo_tarjan"
  /\ Returned
  /\ Len(keys) = 3 /\ Len(t.sccs) = 2
  /\ DOMAIN hist.pushed = KeySet
  /\ t.stack = <<>> /\ t.work = <<>>

\* the place of x in the list q
Pos(q, x) == CHOOSE i \in 1..Len(q) : q[i] = x

\* C27: at every step of either tarjan_sccs, on_stack is the set of the
\* vertices on stack, stack holds no vertex twice, the vertices of the frames
\* of work are on stack in the order of their frames, and no indexed vertex
\* has a lowlink above its index.
C27_StackInvariants ==
  /\ t.on_stack = Range(t.stack)
  /\ NoRepeat(t.stack)
  /\ \A i \in 1..Len(t.work) : t.work[i].v \in Range(t.stack)
  /\ \A i, j \in 1..Len(t.work) :
       i < j => Pos(t.stack, t.work[i].v) < Pos(t.stack, t.work[j].v)
  /\ DOMAIN t.lowlink = DOMAIN t.index
  /\ \A v \in DOMAIN t.index : t.lowlink[v] <= t.index[v]

\* C27 witness: two frames on work, on stack besides their vertices a vertex
\* whose frame is finished, and a vertex whose lowlink is below its index
C27_Witness ==
  /\ Len(t.work) = 2
  /\ Len(t.stack) = 3
  /\ \E x \in Range(t.stack) : \A i \in 1..Len(t.work) : t.work[i].v # x
  /\ \E v \in DOMAIN t.index : t.lowlink[v] < t.index[v]

\* C26: a load of the call CSV stores each pair of the file once, next to the
\* rows that were there, whatever rows repeat in the file; a second load of the
\* same file leaves the table as it is; and no adjacency list of the graph
\* summarize.py or topo.py then builds holds a callee twice.
C26_LoadIsUpsert ==
  [][/\ pc = "load_start" =>
          /\ NoRepeat(call')
          /\ Range(call') = Range(call) \cup Range(csv)
     /\ pc = "loaded" /\ pc' = "reloaded" => call' = call
     /\ pc \in {"start", "topo_start"} =>
          \A u \in DOMAIN graph' : NoRepeat(graph'[u])]_vars

\* C26 witness: a graph built from the table left by loading a CSV that holds
\* a pair of def usrs twice and another pair between them
C26_Witness ==
  /\ pc \in {"for_usr", "topo_built"}
  /\ Len(csv) = 3 /\ csv[1] = csv[3] /\ csv[1] # csv[2]
  /\ csv[1][1] \in KeySet /\ csv[1][2] \in KeySet
  /\ call = <<csv[2], csv[1]>>
  /\ graph[csv[1][1]] # <<>>
====
